---- MODULE Spec2Model ----
(***************************************************************************)
(* Run discovery, run-directory resolution and host listing of the xprof   *)
(* TensorBoard profile plugin (plugin/xprof/profile_plugin.py).            *)
(*                                                                         *)
(* Strings that are paths are sequences of their '/'-separated segments:   *)
(* 'a/r1' is <<"a", "r1">>, the empty string is << >>, and a trailing      *)
(* separator is a last segment "" ('logdir/' is <<"logdir", "">>).         *)
(* Filenames are sequences of their '.'-separated segments:                *)
(* 'host1.xplane.pb' is <<"host1", "xplane", "pb">>.                       *)
(***************************************************************************)
EXTENDS Integers, Sequences, FiniteSets, TLC

(***************************************************************************)
(* Module constants of profile_plugin.py.                                  *)
(***************************************************************************)
TB_NAME == "plugins"
PLUGIN_NAME == "profile"
ALL_HOSTS == <<"ALL_HOSTS">>
SEP == ""

\* self.logdir: one absolute path, kept as a single leading segment.
logdir == <<"logdir">>

\* The request-handling threads; Workers are the ones a sequential server uses.
Threads == {"t1", "t2"}
Workers == {"t1"}

\* The most changes the environment makes to the directory tree in one run.
MaxChanges == 1

(***************************************************************************)
(* The directory tree the behaviours start from:                           *)
(*   logdir/plugins/profile/r1          a run of the root container        *)
(*   logdir/a/plugins/profile/r1        a run of a container no            *)
(*                                      TensorBoard run names              *)
(***************************************************************************)
FullTree ==
    { logdir,
      logdir \o <<"plugins">>,
      logdir \o <<"plugins", "profile">>,
      logdir \o <<"plugins", "profile", "r1">>,
      logdir \o <<"a">>,
      logdir \o <<"a", "plugins">>,
      logdir \o <<"a", "plugins", "profile">>,
      logdir \o <<"a", "plugins", "profile", "r1">> }

\* What data_provider.list_runs may return: TensorBoard run names.
ListRunsChoices ==
    { {}, { <<"train">> }, { <<"a", "train">>, <<"a", "eval">> } }

VARIABLES
    dirs,                     \* the directories that exist (absolute paths)
    unreadable,               \* directories whose listing raises OSError
    list_runs,                \* what data_provider.list_runs returns
    changes,                  \* how often the environment changed the tree
    files,                    \* the filenames in every profile-run directory
    _is_active,               \* self._is_active
    _is_active_lock,          \* self._is_active_lock: its holder, or "free"
    _run_to_profile_run_dir,  \* self._run_to_profile_run_dir
    pc,                       \* each thread's position in its discovery pass
    consumer,                 \* who iterates generate_runs: "any" or "list"
    tb_runs,                  \* generate_runs' local tb_runs
    dirs_to_visit,            \* find_all_subdirectories' deque
    current_dir,              \* the directory yielded, not yet listed
    walked,                   \* the directories the walk has yielded
    listings,                 \* the directories get_subdirectories was
                              \* called for
    plugin_assets,            \* generate_runs' local plugin_assets, the
                              \* profile runs not yet iterated
    cur_tb_run,               \* the tb_run_name the outer loop is at
    visited_runs,             \* generate_runs' local visited_runs
    yielded,                  \* the frontend runs yielded in this pass
    start_epoch,              \* `changes` when the pass started
    response,                 \* what the thread's last per-run query returned
    completed,                \* per epoch, the runs of the first and of the
                              \* latest complete pass that ran wholly inside
                              \* it, and the cache keys after the first
    ever_yielded,             \* every frontend run generate_runs has yielded
    clock,                    \* the monotonic clock, in seconds
    rate_pc,                  \* each walk's position at its rate limiter
    pending,                  \* the directories a walk has still to list
    num_calls,                \* each walk's limiter: calls counted in the
                              \* current period
    last_reset,               \* each walk's limiter: start of the period
    wake,                     \* when a suspended listing call resumes
    listed_at                 \* the listing calls issued, per second

fsvars == <<dirs, unreadable, list_runs, changes, files>>
shared == <<_is_active, _is_active_lock, _run_to_profile_run_dir>>
walkvars == <<walked, listings>>
locals == <<pc, consumer, tb_runs, dirs_to_visit, current_dir, plugin_assets,
            cur_tb_run, visited_runs, yielded, start_epoch, walkvars>>
history == <<completed, ever_yielded>>
ratevars == <<clock, rate_pc, pending, num_calls, last_reset, wake, listed_at>>
mainvars == <<fsvars, shared, locals, response, history>>
vars == <<mainvars, ratevars>>

NoDir == <<"<none>">>
NoRun == <<"<none>">>

(***************************************************************************)
(* os.path and epath helpers.                                              *)
(***************************************************************************)
\* os.path.join(a, b) for a relative b.
OsPathJoin(a, b) ==
    IF a = << >> THEN b
    ELSE IF a[Len(a)] = SEP THEN SubSeq(a, 1, Len(a) - 1) \o b
    ELSE IF b = << >> THEN a \o <<SEP>>
    ELSE a \o b

\* str.rstrip(os.sep)
RECURSIVE Rstrip(_)
Rstrip(s) ==
    IF s # << >> /\ s[Len(s)] = SEP THEN Rstrip(SubSeq(s, 1, Len(s) - 1))
    ELSE s

\* os.path.split(p) of a path without trailing separator: (head, tail).
OsPathSplit(p) ==
    IF p = << >> THEN << << >>, << >> >>
    ELSE << SubSeq(p, 1, Len(p) - 1), <<p[Len(p)]>> >>

\* epath.Path(p): empty and '.' segments do not name anything.
PathOf(p) == SelectSeq(p, LAMBDA s : s # SEP /\ s # ".")

\* epath.Path(p).is_dir()
is_dir(p) == PathOf(p) \in dirs

\* The directories directly under d.
Children(d) ==
    { p \in dirs : Len(p) = Len(d) + 1 /\ SubSeq(p, 1, Len(d)) = d }

\* path.relative_to(logdir_path).parts
RelativeParts(p) == SubSeq(p, Len(logdir) + 1, Len(p))

\* All orders in which a listing may return the set S.
RECURSIVE Orders(_)
Orders(S) ==
    IF S = {} THEN { << >> }
    ELSE UNION { { <<x>> \o o : o \in Orders(S \ {x}) } : x \in S }

(***************************************************************************)
(* Collaborators and module-level helpers.                                 *)
(***************************************************************************)
\* plugin_asset_util.PluginDirectory(logdir, plugin_name)
PluginDirectory(run_path, plugin_name) ==
    OsPathJoin(OsPathJoin(run_path, <<TB_NAME>>), <<plugin_name>>)

\* plugin_asset_util.ListAssets(run_path, plugin_name): the names directly
\* under the plugin directory, none when it cannot be listed.
ListAssets(run_path, plugin_name) ==
    LET plugin_dir == PathOf(PluginDirectory(run_path, plugin_name))
    IN  IF plugin_dir \in dirs /\ plugin_dir \notin unreadable
        THEN { <<p[Len(p)]>> : p \in Children(plugin_dir) }
        ELSE {}

_tb_run_directory(dir, run) ==
    IF run = <<".">> THEN dir ELSE OsPathJoin(dir, run)

\* _plugin_assets(logdir, runs, plugin_name)
_plugin_assets(dir, runs, plugin_name) ==
    [ run \in runs |-> ListAssets(_tb_run_directory(dir, run), plugin_name) ]

\* os.path.basename / os.path.dirname of a TensorBoard run name.
Basename(run) == IF run = << >> THEN << >> ELSE <<run[Len(run)]>>
Dirname(run) == IF run = << >> THEN << >> ELSE SubSeq(run, 1, Len(run) - 1)

\* Variant of SeedRuns: only the parents of the runs called train.
SeedRunsOfTrain(names) ==
    { Dirname(run) : run \in { r \in names : Basename(r) = <<"train">> } }
      \cup { <<".">> }

\* generate_runs, the seeding loop over list_runs.
SeedRuns(names) ==
    { Dirname(run) : run \in { r \in names :
                        Basename(r) \in { <<"train">>, <<"validation">> } } }
      \cup { <<".">> }

\* Variant of WalkedRuns: only the containers directly under the logdir.
WalkedRunsOfTop(path) ==
    LET rel == RelativeParts(path)
    IN  IF Len(rel) = 3 /\ rel[3] = PLUGIN_NAME /\ rel[2] = TB_NAME
        THEN { SubSeq(rel, 1, 1) }
        ELSE {}

\* generate_runs, the body of the loop over find_all_subdirectories: the
\* container a walked path names, if it ends with plugins/profile.
WalkedRuns(path) ==
    LET rel == RelativeParts(path)
        n == Len(rel)
    IN  IF n >= 3 /\ rel[n] = PLUGIN_NAME /\ rel[n - 1] = TB_NAME
        THEN { SubSeq(rel, 1, n - 2) }
        ELSE {}

\* Variant of FrontendRun: the name of the profile run alone.
FrontendRunBare(tb_run_name, profile_run) == profile_run

\* generate_runs line 1094-1097
FrontendRun(tb_run_name, profile_run) ==
    IF tb_run_name = <<".">> THEN profile_run
    ELSE OsPathJoin(tb_run_name, profile_run)

\* generate_runs line 1088-1098
ProfileRunDir(tb_run_name, profile_run) ==
    OsPathJoin(PluginDirectory(_tb_run_directory(logdir, tb_run_name),
                               PLUGIN_NAME),
               profile_run)

\* Variants of CacheWrite: one that rebuilds the mapping around the new entry,
\* one that skips the store.
CacheWriteFresh(cache, run, dir) == [ r \in {run} |-> dir ]
CacheWriteSkip(cache, run, dir) == cache

\* self._run_to_profile_run_dir[frontend_run] = profile_run_dir
CacheWrite(cache, run, dir) ==
    [ r \in DOMAIN cache \cup {run} |-> IF r = run THEN dir ELSE cache[r] ]

\* Variants of NotVisited: no duplicate suppression, and suppression of
\* whatever the cache already knows.
NotVisitedAlways(run, visited) == TRUE
NotVisitedNorCached(run, visited) ==
    run \notin visited /\ run \notin DOMAIN _run_to_profile_run_dir

\* frontend_run not in visited_runs
NotVisited(run, visited) == run \notin visited

(***************************************************************************)
(* Filenames, hosts and tools (module-level functions).                    *)
(*                                                                         *)
(* A host decoded from a filename is a sequence of '.'-separated segments; *)
(* None is << >> and the empty string is <<"">>.                           *)
(***************************************************************************)
None == << >>
EmptyStr == <<"">>

\* TOOLS: tool -> extension, and _EXTENSION_TO_TOOL, its inverse.
TOOLS == [ xplane |-> <<"xplane", "pb">>, hlo_proto |-> <<"hlo_proto", "pb">> ]
_EXTENSION_TO_TOOL(ext) ==
    CHOOSE tool \in DOMAIN TOOLS : TOOLS[tool] = ext

XPLANE_TOOLS ==
    << "trace_viewer", "trace_viewer@", "overview_page",
       "input_pipeline_analyzer", "framework_op_stats", "kernel_stats",
       "memory_profile", "pod_viewer", "op_profile", "hlo_stats",
       "roofline_model", "inference_profile", "memory_viewer", "graph_viewer",
       "megascale_stats" >>

XPLANE_TOOLS_ALL_HOSTS_SUPPORTED ==
    { "input_pipeline_analyzer", "framework_op_stats", "kernel_stats",
      "overview_page", "pod_viewer", "megascale_stats" }

XPLANE_TOOLS_ALL_HOSTS_ONLY == { "overview_page", "pod_viewer" }

HLO_TOOLS == { "graph_viewer", "memory_viewer" }

use_xplane(tool) == \E i \in DOMAIN XPLANE_TOOLS : XPLANE_TOOLS[i] = tool
use_hlo(tool) == tool \in HLO_TOOLS

\* A segment holding a line break: '.' in _FILENAME_RE does not match it.
HasNewline(seg) == seg = "host\nname"

\* _FILENAME_RE.fullmatch(filename): (?:(.*)\.)?(xplane\.pb|hlo_proto\.pb)
FilenameMatches(filename) ==
    LET n == Len(filename)
    IN  /\ n >= 2
        /\ \E tool \in DOMAIN TOOLS :
              TOOLS[tool] = <<filename[n - 1], filename[n]>>
        /\ \A i \in 1..(n - 2) : ~HasNewline(filename[i])

\* _parse_filename(filename): <<host, tool>>
_parse_filename(filename) ==
    LET n == Len(filename)
    IN  IF ~FilenameMatches(filename) THEN <<filename, "None">>
        ELSE << IF n = 2 THEN None ELSE SubSeq(filename, 1, n - 2),
                _EXTENSION_TO_TOOL(<<filename[n - 1], filename[n]>>) >>

\* Python's truth value of a host: None and '' are false.
Truthy(host) == host # None /\ host # EmptyStr

\* _get_hosts(filenames)
_get_hosts(filenames) ==
    { _parse_filename(name)[1] :
        name \in { f \in filenames : Truthy(_parse_filename(f)[1]) } }

(***************************************************************************)
(* Python's order of strings, on the segments the model uses: upper case   *)
(* before lower case, a proper prefix before its extensions.  No segment   *)
(* below is a prefix of another one, and '.' sorts before every letter and *)
(* digit, so dotted names compare segment by segment.                      *)
(***************************************************************************)
SegmentsSorted ==
    << "", "ALL_HOSTS", "a", "b", "hlo_proto", "host\nname", "host1",
       "module1", "module2", "notes", "pb", "txt", "xplane" >>

SegRank(seg) == CHOOSE i \in DOMAIN SegmentsSorted : SegmentsSorted[i] = seg

RECURSIVE StrLess(_, _)
StrLess(x, y) ==
    IF y = << >> THEN FALSE
    ELSE IF x = << >> THEN TRUE
    ELSE IF Head(x) = Head(y) THEN StrLess(Tail(x), Tail(y))
    ELSE SegRank(Head(x)) < SegRank(Head(y))

\* sorted(S) for a set of strings
RECURSIVE Sorted(_)
Sorted(S) ==
    IF S = {} THEN << >>
    ELSE LET least == CHOOSE x \in S : \A y \in S \ {x} : StrLess(x, y)
         IN  <<least>> \o Sorted(S \ {least})

\* Variant of SeveralHosts: a single host counts as several.
AnyHost(hosts) == Cardinality(hosts) >= 1

\* len(hosts) > 1
SeveralHosts(hosts) == Cardinality(hosts) > 1

\* filenames_to_hosts(filenames, tool)
filenames_to_hosts(filenames, tool) ==
    LET hosts == _get_hosts(filenames)
    IN  IF SeveralHosts(hosts)
        THEN IF tool \in XPLANE_TOOLS_ALL_HOSTS_ONLY THEN <<ALL_HOSTS>>
             ELSE IF tool \in XPLANE_TOOLS_ALL_HOSTS_SUPPORTED
                  THEN Sorted(hosts \cup {ALL_HOSTS})
                  ELSE Sorted(hosts)
        ELSE Sorted(hosts)

\* path.glob('*.' + extension): the names that end with '.' + extension.
Glob(names, ext) ==
    { f \in names : Len(f) >= 3 /\ <<f[Len(f) - 1], f[Len(f)]>> = ext }

\* The tool pattern _run_host_impl globs with (line 552).
HostToolPattern(tool) == TOOLS.xplane

(***************************************************************************)
(* Tools.  Python's order of the tool names ('_' sorts before the lower    *)
(* case letters, a name before the same name with '@').                    *)
(***************************************************************************)
ToolsSorted ==
    << "framework_op_stats", "graph_viewer", "hlo_stats", "inference_profile",
       "input_pipeline_analyzer", "kernel_stats", "megascale_stats",
       "memory_profile", "memory_viewer", "op_profile", "overview_page",
       "pod_viewer", "roofline_model", "trace_viewer", "trace_viewer@" >>

ToolRank(tool) == CHOOSE i \in DOMAIN ToolsSorted : ToolsSorted[i] = tool

RECURSIVE SortedTools(_)
SortedTools(S) ==
    IF S = {} THEN << >>
    ELSE LET least == CHOOSE x \in S :
                        \A y \in S \ {x} : ToolRank(x) < ToolRank(y)
         IN  <<least>> \o SortedTools(S \ {least})

\* What convert.xspace_to_tool_names may do for a run's xplane files: return
\* tool names, or raise; data_impl names the errors the converters raise.
ConvertErrors == { "AttributeError", "ValueError" }

ConvertOutcomes ==
    { [ raises |-> "none", names |-> { "kernel_stats", "overview_page",
                                       "hlo_stats" } ],
      [ raises |-> "none", names |-> { "trace_viewer", "trace_viewer@",
                                       "memory_viewer" } ] }
    \cup { [ raises |-> e, names |-> {} ] : e \in ConvertErrors }

\* tool[:-1] of a tool name: the name without its last character, which the
\* model knows for the names that end with '@'.
ButLast(tool) ==
    IF tool = "trace_viewer@" THEN "trace_viewer" ELSE <<tool, "[:-1]">>

\* Variant of XplaneFilenames: the hlo_proto files count as xplane files.
BinaryFilenames(filenames) ==
    { name \in filenames :
        _parse_filename(name)[2] \in { "xplane", "hlo_proto" } }

\* The xplane files of _get_tools' loop.
XplaneFilenames(filenames) ==
    { name \in filenames : _parse_filename(name)[2] = "xplane" }

\* What _get_tools raises: an error of the converter other than the
\* AttributeError it catches, or "none".
_get_tools_raises(filenames, profile_run_dir, conv) ==
    IF /\ profile_run_dir # << >>
       /\ XplaneFilenames(filenames) # {}
       /\ conv.raises \notin { "none", "AttributeError" }
    THEN conv.raises ELSE "none"

\* The `tools` of _get_tools' loop: the tools the filenames decode to, the
\* two format markers and None aside (the elif tool branch).
DirectTools(filenames) ==
    { tool \in { _parse_filename(name)[2] : name \in filenames } :
        tool \notin { "xplane", "hlo_proto", "None" } }

\* The `found` of _get_tools' loop: tool[:-1] for a tool that ends with '@'.
FoundTools(tools) ==
    { IF tool = "trace_viewer@" THEN ButLast(tool) ELSE tool : tool \in tools }

\* _get_tools(filenames, profile_run_dir)
_get_tools(filenames, profile_run_dir, conv) ==
    LET xplane_filenames == XplaneFilenames(filenames)
        tools == DirectTools(filenames)
        found == FoundTools(tools)
    IN  IF profile_run_dir = << >>
        THEN IF xplane_filenames # {}
             THEN tools \cup { XPLANE_TOOLS[i] : i \in
                      { j \in DOMAIN XPLANE_TOOLS :
                          ButLast(XPLANE_TOOLS[j]) \notin found } }
             ELSE tools
        ELSE IF xplane_filenames # {} /\ conv.raises = "none"
             THEN conv.names
             ELSE tools

\* Variant of _get_active_tools: all the tools in one ascending list.
_get_active_tools_sorted(filenames, profile_run_dir, conv) ==
    LET tools == _get_tools(filenames, profile_run_dir, conv)
    IN  SortedTools(IF "trace_viewer@" \in tools
                    THEN tools \ {"trace_viewer"} ELSE tools)

\* _get_active_tools(filenames, profile_run_dir)
_get_active_tools(filenames, profile_run_dir, conv) ==
    LET tools == _get_tools(filenames, profile_run_dir, conv)
        kept == IF "trace_viewer@" \in tools
                THEN tools \ {"trace_viewer"} ELSE tools
        op == {"overview_page"}
    IN  SortedTools(kept \cap op) \o SortedTools(kept \ op)

(***************************************************************************)
(* Initial state: the plugin as constructed, over the full tree.           *)
(***************************************************************************)
\* The run directory of host_impl's docstring.
ExampleFiles ==
    { <<"host1", "xplane", "pb">>,
      <<"module1", "hlo_proto", "pb">>,
      <<"module2", "hlo_proto", "pb">> }

NoResponse ==
    [ op |-> "none", run |-> << >>, tool |-> "", kind |-> "none",
      path |-> << >>, existed |-> FALSE, names |-> << >>, tools |-> << >>,
      conv |-> [ raises |-> "none", names |-> {} ], toolset |-> {} ]

IdleLocals ==
    /\ pc = [t \in Threads |-> "idle"]
    /\ consumer = [t \in Threads |-> "none"]
    /\ tb_runs = [t \in Threads |-> {}]
    /\ dirs_to_visit = [t \in Threads |-> << >>]
    /\ current_dir = [t \in Threads |-> NoDir]
    /\ walked = [t \in Threads |-> << >>]
    /\ listings = [t \in Threads |-> << >>]
    /\ plugin_assets = [t \in Threads |-> << >>]
    /\ cur_tb_run = [t \in Threads |-> NoRun]
    /\ visited_runs = [t \in Threads |-> {}]
    /\ yielded = [t \in Threads |-> << >>]
    /\ start_epoch = [t \in Threads |-> 0]

\* No large walk is under way: the eight directories of FullTree stay under
\* the limiter's budget, and a walk gets a limiter of its own.
NoRateWalk ==
    /\ clock = 0
    /\ rate_pc = [t \in Threads |-> "idle"]
    /\ pending = [t \in Threads |-> 0]
    /\ num_calls = [t \in Threads |-> 0]
    /\ last_reset = [t \in Threads |-> 0]
    /\ wake = [t \in Threads |-> 0]
    /\ listed_at = << >>

Plugin ==
    /\ _is_active = FALSE
    /\ _is_active_lock = "free"
    /\ _run_to_profile_run_dir = << >>
    /\ IdleLocals
    /\ response = [t \in Threads |-> NoResponse]
    /\ completed = [e \in 0..MaxChanges |-> << >>]
    /\ ever_yielded = {}

Init ==
    /\ dirs = FullTree
    /\ unreadable = {}
    /\ list_runs \in ListRunsChoices
    /\ changes = 0
    /\ files = ExampleFiles
    /\ Plugin
    /\ NoRateWalk

(***************************************************************************)
(* A discovery pass: generate_runs, iterated by any() in is_active or by   *)
(* list() in runs_imp.  Each action is one stretch of the generator        *)
(* between two reads of the file system or accesses of shared state.       *)
(***************************************************************************)
\* generate_runs up to the first directory of the walk (lines 1032-1065,
\* 1009-1012).
StartPass(t, c) ==
    /\ pc[t] = "idle"
    /\ response[t] = NoResponse
    /\ consumer' = [consumer EXCEPT ![t] = c]
    /\ tb_runs' = [tb_runs EXCEPT ![t] = SeedRuns(list_runs)]
    /\ dirs_to_visit' = [dirs_to_visit EXCEPT ![t] =
                            IF is_dir(logdir) THEN <<logdir>> ELSE << >>]
    /\ walked' = [walked EXCEPT ![t] = << >>]
    /\ listings' = [listings EXCEPT ![t] = << >>]
    /\ pc' = [pc EXCEPT ![t] = "walk"]
    /\ start_epoch' = [start_epoch EXCEPT ![t] = changes]
    /\ UNCHANGED <<ratevars, fsvars, shared, current_dir, plugin_assets, cur_tb_run,
                   visited_runs, yielded, history, response>>

\* is_active: the unlocked check of the flag, then any(generate_runs()).
IsActive(t) ==
    IF _is_active
    THEN pc[t] = "idle" /\ response[t] = NoResponse /\ UNCHANGED vars
    ELSE StartPass(t, "any")

\* runs_imp: sorted(list(self.generate_runs()), reverse=True)
RunsImp(t) == StartPass(t, "list")

\* Variant of ListedOnYield: the directory is listed before it is yielded.
ListedBeforeYield(calls, d) == Append(calls, d)

\* The listing calls made when d is yielded: the call for d follows the
\* yield (lines 1024-1025).
ListedOnYield(calls, d) == calls

\* find_all_subdirectories: popleft and yield; the consumer's loop body
\* (lines 1067-1079) adds the container to tb_runs.
WalkYield(t) ==
    /\ pc[t] = "walk"
    /\ dirs_to_visit[t] # << >>
    /\ LET d == Head(dirs_to_visit[t])
       IN  /\ current_dir' = [current_dir EXCEPT ![t] = d]
           /\ tb_runs' = [tb_runs EXCEPT ![t] = @ \cup WalkedRuns(d)]
           /\ walked' = [walked EXCEPT ![t] = Append(@, d)]
           /\ listings' = [listings EXCEPT ![t] = ListedOnYield(@, d)]
    /\ dirs_to_visit' = [dirs_to_visit EXCEPT ![t] = Tail(@)]
    /\ pc' = [pc EXCEPT ![t] = "list"]
    /\ UNCHANGED <<ratevars, fsvars, shared, consumer, plugin_assets, cur_tb_run,
                   visited_runs, yielded, start_epoch, history, response>>

\* Variant of Enqueue: the children go to the front of the deque.
EnqueueFront(queue, order) == order \o queue

\* dirs_to_visit.append(path) for the directories of a listing.
Enqueue(queue, order) == queue \o order

\* Variant of AfterListingError: the failure ends the walk.
DropAfterListingError(queue) == << >>

\* except (IOError, OSError): the warning is logged, the deque stays.
AfterListingError(queue) == queue

\* get_subdirectories(current_dir, dirs_to_visit): the rate limiter admits
\* the call after at most a sleep; a failed listing enqueues nothing.
get_subdirectories(t) ==
    /\ pc[t] = "list"
    /\ LET d == current_dir[t]
       IN  /\ IF d \in dirs /\ d \notin unreadable
              THEN \E order \in Orders(Children(d)) :
                       dirs_to_visit' = [dirs_to_visit EXCEPT ![t] =
                                            Enqueue(@, order)]
              ELSE dirs_to_visit' = [dirs_to_visit EXCEPT ![t] =
                                        AfterListingError(@)]
           /\ listings' = [listings EXCEPT ![t] = Append(@, d)]
    /\ current_dir' = [current_dir EXCEPT ![t] = NoDir]
    /\ pc' = [pc EXCEPT ![t] = "walk"]
    /\ UNCHANGED <<ratevars, fsvars, shared, consumer, tb_runs, plugin_assets,
                   cur_tb_run, visited_runs, yielded, start_epoch, history,
                   response, walked>>

\* The walk is exhausted: tb_run_names_to_dirs and _plugin_assets (lines
\* 1080-1086).
PluginAssets(t) ==
    /\ pc[t] = "walk"
    /\ dirs_to_visit[t] = << >>
    /\ plugin_assets' = [plugin_assets EXCEPT ![t] =
                            _plugin_assets(logdir, tb_runs[t], PLUGIN_NAME)]
    /\ walked' = [walked EXCEPT ![t] = << >>]
    /\ listings' = [listings EXCEPT ![t] = << >>]
    /\ pc' = [pc EXCEPT ![t] = "runs"]
    /\ UNCHANGED <<ratevars, fsvars, shared, consumer, tb_runs, dirs_to_visit,
                   current_dir, cur_tb_run, visited_runs, yielded, start_epoch,
                   history, response>>

\* The containers the outer loop (line 1087) may be at next: the current one
\* while it has profile runs left, then any other.
NextContainers(t) ==
    LET pa == plugin_assets[t]
    IN  IF cur_tb_run[t] \in DOMAIN pa /\ pa[cur_tb_run[t]] # {}
        THEN { cur_tb_run[t] }
        ELSE { c \in DOMAIN pa : pa[c] # {} }

\* One iteration of the inner loop (lines 1091-1103).
RunStep(t) ==
    /\ pc[t] = "runs"
    /\ \E tb_run_name \in NextContainers(t) :
       \E listed \in plugin_assets[t][tb_run_name] :
          LET profile_run == Rstrip(listed)
              frontend_run == FrontendRun(tb_run_name, profile_run)
              profile_run_dir == ProfileRunDir(tb_run_name, profile_run)
              found == is_dir(profile_run_dir)
              fresh == found /\ NotVisited(frontend_run, visited_runs[t])
          IN  /\ plugin_assets' = [plugin_assets EXCEPT
                                      ![t][tb_run_name] = @ \ {listed}]
              /\ cur_tb_run' = [cur_tb_run EXCEPT ![t] = tb_run_name]
              /\ _run_to_profile_run_dir' =
                    IF found
                    THEN CacheWrite(_run_to_profile_run_dir, frontend_run,
                                    profile_run_dir)
                    ELSE _run_to_profile_run_dir
              /\ visited_runs' = [visited_runs EXCEPT ![t] =
                                    IF fresh THEN @ \cup {frontend_run} ELSE @]
              /\ yielded' = [yielded EXCEPT ![t] =
                                IF fresh THEN Append(@, frontend_run) ELSE @]
              /\ ever_yielded' = IF fresh THEN ever_yielded \cup {frontend_run}
                                 ELSE ever_yielded
              /\ pc' = [pc EXCEPT ![t] =
                            IF fresh /\ consumer[t] = "any"
                            THEN "finish" ELSE "runs"]
    /\ UNCHANGED <<ratevars, fsvars, _is_active, _is_active_lock, consumer, tb_runs,
                   dirs_to_visit, current_dir, start_epoch, completed,
                   response, walkvars>>

SetOf(s) == { s[i] : i \in DOMAIN s }

\* Variant of AnyOf: the flag follows what the thread saw when it checked it.
AnyOfUnlessActive(runs) == runs # << >> /\ ~_is_active

\* any(runs) of the runs the generator yielded before any() stopped it: a
\* frontend run name is a non-empty string.
AnyOf(runs) == runs # << >>

\* The consumer has its result: any() stopped at the first run or the
\* generator is exhausted.  is_active stores the flag (line 436); runs_imp
\* returns the list.
Finish(t) ==
    /\ \/ pc[t] = "finish"
       \/ pc[t] = "runs" /\ NextContainers(t) = {}
    /\ IF consumer[t] = "any"
       THEN /\ _is_active' = AnyOf(yielded[t])
            /\ UNCHANGED completed
       ELSE /\ UNCHANGED _is_active
            /\ completed' =
                  IF start_epoch[t] = changes
                  THEN [completed EXCEPT ![changes] =
                          IF @ = << >>
                          THEN << [ runs |-> SetOf(yielded[t]),
                                    cached |->
                                       DOMAIN _run_to_profile_run_dir ] >>
                          ELSE << @[1], [ runs |-> SetOf(yielded[t]) ] >>]
                  ELSE completed
    /\ pc' = [pc EXCEPT ![t] = "idle"]
    /\ consumer' = [consumer EXCEPT ![t] = "none"]
    /\ tb_runs' = [tb_runs EXCEPT ![t] = {}]
    /\ plugin_assets' = [plugin_assets EXCEPT ![t] = << >>]
    /\ cur_tb_run' = [cur_tb_run EXCEPT ![t] = NoRun]
    /\ visited_runs' = [visited_runs EXCEPT ![t] = {}]
    /\ yielded' = [yielded EXCEPT ![t] = << >>]
    /\ start_epoch' = [start_epoch EXCEPT ![t] = 0]
    /\ UNCHANGED <<ratevars, fsvars, _is_active_lock, _run_to_profile_run_dir,
                   dirs_to_visit, current_dir, response, ever_yielded,
                   walkvars>>

(***************************************************************************)
(* Per-run queries.  A thread answers one while it runs no discovery pass; *)
(* `response` keeps what it returned or raised.                            *)
(***************************************************************************)
QueryRuns == { <<"r1">>, <<"nope">>, <<"b", "r1">> }
QueryTools == { "memory_viewer", "overview_page" }
QueryHosts == { <<"host1">>, ALL_HOSTS }

\* The filenames in directory p: profile-run directories hold `files`.
FilesIn(p) ==
    LET d == PathOf(p)
        n == Len(d)
    IN  IF d \in dirs /\ n >= 4 /\ d[n - 1] = PLUGIN_NAME /\ d[n - 2] = TB_NAME
        THEN files ELSE {}

\* A listing of directory p that raises OSError is caught and gives no name.
Listing(p) == IF PathOf(p) \in unreadable THEN {} ELSE FilesIn(p)

\* When the listing of an unreadable directory raises: as iterdir or glob is
\* called, inside the try of the query, or as the iterator it returned is
\* consumed, after the try.
ListingRaises == { "at_call", "at_iteration" }

\* The OSError of listing p is raised outside the try.
\* The ways the listing of directory p can go: a readable directory lists.
ListingOutcomes(p) ==
    IF p # << >> /\ PathOf(p) \in unreadable
    THEN ListingRaises
    ELSE { "none" }

Escapes(p, when) == PathOf(p) \in unreadable /\ when = "at_iteration"

\* make_filename(host, tool)
make_filename(host, tool) ==
    (IF Truthy(host) THEN host ELSE << >>)
        \o TOOLS[IF use_hlo(tool) THEN "hlo_proto"
                 ELSE IF use_xplane(tool) THEN "xplane" ELSE tool]

\* _run_dir(run): the directory, or the RuntimeError 'No matching run
\* directory'.
_run_dir(run) ==
    LET stripped == Rstrip(run)
        split == OsPathSplit(stripped)
        tb_run_name == IF split[1] = << >> THEN <<".">> ELSE split[1]
        profile_run_name == split[2]
        tb_run_directory == _tb_run_directory(logdir, tb_run_name)
    IN  IF ~is_dir(tb_run_directory)
        THEN [ raises |-> TRUE, path |-> << >> ]
        ELSE [ raises |-> FALSE,
               path |-> OsPathJoin(PluginDirectory(tb_run_directory,
                                                   PLUGIN_NAME),
                                   profile_run_name) ]

Respond(t, r) ==
    /\ pc[t] = "idle"
    /\ response[t] = NoResponse
    /\ response' = [response EXCEPT ![t] = r]
    /\ UNCHANGED <<ratevars, fsvars, shared, locals, history>>

\* The route hands the response to the client.
Return(t) ==
    /\ response[t] # NoResponse
    /\ response' = [response EXCEPT ![t] = NoResponse]
    /\ UNCHANGED <<ratevars, fsvars, shared, locals, history>>

\* generate_tools_of_run(run), iterated by run_tools_imp.
generate_tools_of_run(t, run) ==
    IF run \notin DOMAIN _run_to_profile_run_dir
    THEN Respond(t, [ NoResponse EXCEPT !.op = "tools", !.run = run,
                                        !.kind = "KeyError" ])
    ELSE LET profile_run_dir == _run_to_profile_run_dir[run]
             filenames == Listing(profile_run_dir)
             listed == is_dir(profile_run_dir) /\ filenames # {}
             base == [ NoResponse EXCEPT
                         !.op = "tools", !.run = run,
                         !.path = profile_run_dir,
                         !.existed = is_dir(profile_run_dir) ]
         IN  \E conv \in ConvertOutcomes,
                when \in ListingOutcomes(profile_run_dir) :
                LET raises == _get_tools_raises(filenames, profile_run_dir,
                                                conv)
                IN  IF is_dir(profile_run_dir)
                       /\ Escapes(profile_run_dir, when)
                    THEN Respond(t, [ base EXCEPT !.kind = "OSError" ])
                    ELSE IF listed /\ raises # "none"
                    THEN Respond(t, [ base EXCEPT !.kind = raises ])
                    ELSE Respond(t, [ base EXCEPT
                            !.kind = "ok",
                            !.tools = IF listed
                                      THEN _get_active_tools(filenames,
                                              profile_run_dir, conv)
                                      ELSE << >> ])

\* _run_host_impl(run, run_dir, tool)
_run_host_impl(run, run_dir, tool) ==
    IF run_dir = << >> THEN << >>
    ELSE filenames_to_hosts(Glob(Listing(run_dir), HostToolPattern(tool)),
                            tool)

\* host_impl(run, tool)
host_impl(t, run, tool) ==
    LET run_dir == _run_dir(run)
    IN  IF run_dir.raises
        THEN Respond(t, [ NoResponse EXCEPT !.op = "hosts", !.run = run,
                             !.tool = tool, !.kind = "RuntimeError" ])
        ELSE \E when \in ListingOutcomes(run_dir.path) :
               LET base == [ NoResponse EXCEPT
                               !.op = "hosts", !.run = run, !.tool = tool,
                               !.path = run_dir.path,
                               !.existed = is_dir(run_dir.path) ]
               IN  IF run_dir.path # << >> /\ Escapes(run_dir.path, when)
                   THEN Respond(t, [ base EXCEPT !.kind = "OSError" ])
                   ELSE Respond(t, [ base EXCEPT
                           !.kind = "ok",
                           !.names = _run_host_impl(run, run_dir.path, tool) ])

\* hlo_module_list_impl(request): the module names in the order of the glob.
hlo_module_list_impl(t, run) ==
    LET run_dir == _run_dir(run)
    IN  IF run_dir.raises
        THEN Respond(t, [ NoResponse EXCEPT !.op = "modules", !.run = run,
                             !.kind = "RuntimeError" ])
        ELSE \E order \in Orders(Glob(Listing(run_dir.path), TOOLS.hlo_proto)),
                when \in ListingOutcomes(run_dir.path) :
               LET base == [ NoResponse EXCEPT
                               !.op = "modules", !.run = run,
                               !.path = run_dir.path,
                               !.existed = is_dir(run_dir.path) ]
               IN  IF run_dir.path # << >> /\ Escapes(run_dir.path, when)
                   THEN Respond(t, [ base EXCEPT !.kind = "OSError" ])
                   ELSE Respond(t, [ base EXCEPT
                           !.kind = "ok",
                           !.names = SelectSeq(
                              [ i \in DOMAIN order |->
                                  _parse_filename(order[i])[1] ], Truthy) ])

\* What convert.xspace_to_tool_data may do: return data or raise.
DataOutcomes == { "data", "AttributeError", "ValueError" }

\* data_impl(request): what it returns or raises.  The cache version file
\* only decides the use_saved_result parameter of the converter.
data_impl(t, run, tool, host) ==
    LET run_dir == _run_dir(run)
        asset == make_filename(host, tool)
        missing == /\ host # ALL_HOSTS
                   /\ SubSeq(asset, Len(asset) - 1, Len(asset)) = TOOLS.xplane
                   /\ asset \notin FilesIn(run_dir.path)
        base == [ NoResponse EXCEPT !.op = "data", !.run = run ]
    IN  IF run_dir.raises
        THEN Respond(t, [ base EXCEPT !.kind = "RuntimeError" ])
        ELSE LET ok == [ base EXCEPT !.path = run_dir.path,
                                     !.existed = is_dir(run_dir.path) ]
             IN  IF ~use_xplane(tool)
                 THEN Respond(t, [ ok EXCEPT !.kind = "None" ])
                 ELSE IF host = ALL_HOSTS /\ PathOf(run_dir.path) \in unreadable
                 THEN Respond(t, [ ok EXCEPT !.kind = "IOError" ])
                 ELSE IF missing
                 THEN Respond(t, [ ok EXCEPT !.kind = "FileNotFoundError" ])
                 ELSE \E out \in DataOutcomes :
                         Respond(t, [ ok EXCEPT !.kind = out ])

(***************************************************************************)
(* The environment: the tree changes under the plugin.                     *)
(***************************************************************************)
IsPrefix(p, q) == Len(p) <= Len(q) /\ SubSeq(q, 1, Len(p)) = p

RemoveTree(d) ==
    /\ changes < MaxChanges
    /\ d \in dirs
    /\ dirs' = { p \in dirs : ~IsPrefix(d, p) }
    /\ unreadable' = { p \in unreadable : ~IsPrefix(d, p) }
    /\ changes' = changes + 1
    /\ UNCHANGED <<ratevars, list_runs, files, shared, locals, response, history>>

MakeUnreadable(d) ==
    /\ changes < MaxChanges
    /\ d \in dirs \ unreadable
    /\ unreadable' = unreadable \cup {d}
    /\ changes' = changes + 1
    /\ UNCHANGED <<ratevars, dirs, list_runs, files, shared, locals, response, history>>

Pass(t) ==
    \/ IsActive(t)
    \/ RunsImp(t)
    \/ WalkYield(t)
    \/ get_subdirectories(t)
    \/ PluginAssets(t)
    \/ RunStep(t)
    \/ Finish(t)

Query(t) ==
    \/ Return(t)
    \/ /\ pc[t] = "idle"
       /\ response[t] = NoResponse
       /\ \E run \in QueryRuns :
          \/ generate_tools_of_run(t, run)
          \/ hlo_module_list_impl(t, run)
          \/ \E tool \in QueryTools :
                \/ host_impl(t, run, tool)
                \/ \E host \in QueryHosts : data_impl(t, run, tool, host)

Environment == \E d \in FullTree : RemoveTree(d) \/ MakeUnreadable(d)

\* One worker thread serves the requests one after the other, while the tree
\* changes under it.
Next ==
    \/ \E t \in Workers : Pass(t) \/ Query(t)
    \/ Environment

Spec == Init /\ [][Next]_vars

\* Two threads serve requests concurrently over a tree that does not change.
NextConc == \E t \in Threads : Pass(t) \/ Query(t)

SpecConc == Init /\ [][NextConc]_vars

(***************************************************************************)
(* The rate limiter of the walk's listing calls.                           *)
(*                                                                         *)
(* find_all_subdirectories decorates get_subdirectories each time it is    *)
(* called, so every walk has a limiter of its own: `limits` counts the     *)
(* calls of a period of LIMIT_WINDOW_SECONDS that starts when the limiter  *)
(* is made, or at the first call after the period ended, and raises over   *)
(* the budget; `sleep_and_retry` sleeps for the rest of the period and     *)
(* calls again.  A walk is taken by the number of directories it has still *)
(* to list; a listing call takes no time of its own.                       *)
(***************************************************************************)
MAX_GCS_REQUESTS == 1000
LIMIT_WINDOW_SECONDS == 60
AVERAGE_SUBDIR_NUMBER == 10

\* calls=MAX_GCS_REQUESTS / AVERAGE_SUBDIR_NUMBER
LimitCalls == MAX_GCS_REQUESTS \div AVERAGE_SUBDIR_NUMBER

\* The directories under the top of a walk: a small tree, and one past the
\* budget of a period.
MaxTreeSize == 101
TreeSizes == { 2, MaxTreeSize }

\* The clock advances by Quantum seconds, up to MaxClock.
Quantum == 30
MaxClock == 120

\* period - (clock() - last_reset)
PeriodRemaining(t) == LIMIT_WINDOW_SECONDS - (clock - last_reset[t])

\* The limiter's counter as the call enters: a period that ended starts anew.
CallsNow(t) == IF PeriodRemaining(t) <= 0 THEN 1 ELSE num_calls[t] + 1
ResetNow(t) == IF PeriodRemaining(t) <= 0 THEN clock ELSE last_reset[t]

Count(log, at) == IF at \in DOMAIN log THEN log[at] ELSE 0

\* find_all_subdirectories(top_path): the decorators make the walk's limiter.
find_all_subdirectories(t) ==
    /\ rate_pc[t] = "idle"
    /\ pending[t] > 0
    /\ rate_pc' = [rate_pc EXCEPT ![t] = "walking"]
    /\ num_calls' = [num_calls EXCEPT ![t] = 0]
    /\ last_reset' = [last_reset EXCEPT ![t] = clock]
    /\ UNCHANGED <<mainvars, clock, pending, wake, listed_at>>

\* @limits(...) admits the call: get_subdirectories lists one directory.
limits(t) ==
    /\ rate_pc[t] = "walking"
    /\ pending[t] > 0
    /\ CallsNow(t) <= LimitCalls
    /\ num_calls' = [num_calls EXCEPT ![t] = CallsNow(t)]
    /\ last_reset' = [last_reset EXCEPT ![t] = ResetNow(t)]
    /\ pending' = [pending EXCEPT ![t] = @ - 1]
    /\ listed_at' = [ at \in DOMAIN listed_at \cup {clock} |->
                        IF at = clock THEN Count(listed_at, clock) + 1
                        ELSE listed_at[at] ]
    /\ rate_pc' = [rate_pc EXCEPT ![t] =
                      IF pending[t] = 1 THEN "done" ELSE "walking"]
    /\ UNCHANGED <<mainvars, clock, wake>>

\* @limits(...) raises over the budget, @sleep_and_retry sleeps for the rest
\* of the period.
sleep_and_retry(t) ==
    /\ rate_pc[t] = "walking"
    /\ pending[t] > 0
    /\ CallsNow(t) > LimitCalls
    /\ num_calls' = [num_calls EXCEPT ![t] = CallsNow(t)]
    /\ last_reset' = [last_reset EXCEPT ![t] = ResetNow(t)]
    /\ wake' = [wake EXCEPT ![t] = clock + PeriodRemaining(t)]
    /\ rate_pc' = [rate_pc EXCEPT ![t] = "sleeping"]
    /\ UNCHANGED <<mainvars, clock, pending, listed_at>>

\* time.sleep returns and the call is made again.
Retry(t) ==
    /\ rate_pc[t] = "sleeping"
    /\ clock >= wake[t]
    /\ rate_pc' = [rate_pc EXCEPT ![t] = "walking"]
    /\ UNCHANGED <<mainvars, clock, pending, num_calls, last_reset, wake, listed_at>>

\* Time passes while no walk is between two listing calls.
Tick ==
    /\ \A t \in Threads : rate_pc[t] # "walking"
    /\ clock + Quantum <= MaxClock
    /\ clock' = clock + Quantum
    /\ UNCHANGED <<mainvars, rate_pc, pending, num_calls, last_reset, wake, listed_at>>

InitRate ==
    /\ dirs = FullTree
    /\ unreadable = {}
    /\ list_runs = {}
    /\ changes = 0
    /\ files = ExampleFiles
    /\ Plugin
    /\ clock = 0
    /\ rate_pc = [t \in Threads |-> "idle"]
    /\ pending \in [Threads -> TreeSizes]
    /\ num_calls = [t \in Threads |-> 0]
    /\ last_reset = [t \in Threads |-> 0]
    /\ wake = [t \in Threads |-> 0]
    /\ listed_at = << >>

NextRate ==
    \/ \E t \in Threads :
          \/ find_all_subdirectories(t)
          \/ limits(t)
          \/ sleep_and_retry(t)
          \/ Retry(t)
    \/ Tick

\* Walks of large trees, each behind its limiter.
SpecRate == InitRate /\ [][NextRate]_vars

(***************************************************************************)
(* filenames_to_hosts over the filenames a run directory may hold.         *)
(***************************************************************************)
FileUniverse ==
    { <<"a", "xplane", "pb">>,
      <<"b", "xplane", "pb">>,
      <<"xplane", "pb">>,
      <<"", "xplane", "pb">>,
      <<"a", "hlo_proto", "pb">>,
      <<"host1", "xplane", "pb">>,
      <<"notes", "txt">> }

HostTools == { XPLANE_TOOLS[i] : i \in DOMAIN XPLANE_TOOLS }

\* filenames_to_hosts(files, tool), called by a thread that serves no query.
FilenamesToHosts(t, tool) ==
    Respond(t, [ NoResponse EXCEPT !.op = "filenames_to_hosts",
                                   !.tool = tool,
                                   !.names = filenames_to_hosts(files, tool) ])

InitHosts ==
    /\ dirs = FullTree
    /\ unreadable = {}
    /\ list_runs = {}
    /\ changes = 0
    /\ files \in SUBSET FileUniverse
    /\ Plugin
    /\ NoRateWalk

NextHosts ==
    \E t \in Workers :
       \/ \E tool \in HostTools : FilenamesToHosts(t, tool)
       \/ Return(t)

SpecHosts == InitHosts /\ [][NextHosts]_vars

(***************************************************************************)
(* make_filename and _parse_filename over hosts and filenames of a few     *)
(* segments.                                                               *)
(***************************************************************************)
\* The longest host, in segments.
MaxHostLen == 2

CodecSegments == { "a", "b", "", "xplane", "pb", "host\nname" }
FileSegments == CodecSegments \cup { "hlo_proto", "txt" }

\* The strings of 1..n segments.
Strings(n, segs) == UNION { [1..k -> segs] : k \in 1..n }

\* The non-empty hosts.
CodecHosts == Strings(MaxHostLen, CodecSegments) \ { EmptyStr }

CodecFilenames == Strings(MaxHostLen + 2, FileSegments)

\* _parse_filename(make_filename(host, tool))
RoundTrip(t, host, tool) ==
    /\ response[t] = NoResponse
    /\ LET filename == make_filename(host, tool)
           parsed == _parse_filename(filename)
       IN  Respond(t, [ NoResponse EXCEPT !.op = "round_trip", !.run = host,
                                          !.tool = tool, !.kind = "ok",
                                          !.path = filename,
                                          !.names = <<parsed[1]>>,
                                          !.tools = <<parsed[2]>> ])

\* _parse_filename(filename)
ParseFilename(t, filename) ==
    /\ response[t] = NoResponse
    /\ LET parsed == _parse_filename(filename)
       IN  Respond(t, [ NoResponse EXCEPT !.op = "_parse_filename",
                                          !.kind = "ok", !.path = filename,
                                          !.names = <<parsed[1]>>,
                                          !.tools = <<parsed[2]>> ])

NextCodec ==
    \E t \in Workers :
       \/ \E host \in CodecHosts, tool \in DOMAIN TOOLS :
             RoundTrip(t, host, tool)
       \/ \E filename \in CodecFilenames : ParseFilename(t, filename)
       \/ Return(t)

SpecCodec == Init /\ [][NextCodec]_vars

(***************************************************************************)
(* _get_tools and _get_active_tools over the filenames a run directory may *)
(* hold and over what the converter may enumerate.                         *)
(***************************************************************************)
ToolSample ==
    { "overview_page", "hlo_stats", "kernel_stats", "trace_viewer",
      "trace_viewer@", "memory_viewer" }

\* What convert.xspace_to_tool_names may do: enumerate any tools, or raise.
ConvertAll ==
    { [ raises |-> "none", names |-> S ] : S \in SUBSET ToolSample }
    \cup { [ raises |-> e, names |-> {} ] : e \in ConvertErrors }

\* profile_run_dir: '' (no run directory) or the directory of a run.
ToolRunDirs == { << >>, logdir \o <<"plugins", "profile", "r1">> }

\* _get_tools(files, profile_run_dir)
GetTools(t, profile_run_dir, conv) ==
    /\ response[t] = NoResponse
    /\ LET raises == _get_tools_raises(files, profile_run_dir, conv)
           base == [ NoResponse EXCEPT !.op = "_get_tools",
                                       !.path = profile_run_dir, !.conv = conv ]
       IN  IF raises # "none"
           THEN Respond(t, [ base EXCEPT !.kind = raises ])
           ELSE Respond(t, [ base EXCEPT
                   !.kind = "ok",
                   !.toolset = _get_tools(files, profile_run_dir, conv) ])

\* self._get_active_tools(files, profile_run_dir)
GetActiveTools(t, profile_run_dir, conv) ==
    /\ response[t] = NoResponse
    /\ LET raises == _get_tools_raises(files, profile_run_dir, conv)
           base == [ NoResponse EXCEPT !.op = "_get_active_tools",
                                       !.path = profile_run_dir, !.conv = conv ]
       IN  IF raises # "none"
           THEN Respond(t, [ base EXCEPT !.kind = raises ])
           ELSE Respond(t, [ base EXCEPT
                   !.kind = "ok",
                   !.toolset = _get_tools(files, profile_run_dir, conv),
                   !.tools = _get_active_tools(files, profile_run_dir, conv) ])

NextTools ==
    \E t \in Workers :
       \/ \E profile_run_dir \in ToolRunDirs, conv \in ConvertAll :
             \/ GetTools(t, profile_run_dir, conv)
             \/ GetActiveTools(t, profile_run_dir, conv)
       \/ Return(t)

SpecTools == InitHosts /\ [][NextTools]_vars

(***************************************************************************)
(* The walk over deeper trees: a container two directories below the       *)
(* logdir, next to the container at the logdir and a directory with no     *)
(* children; each tree with at most one directory whose listing fails.     *)
(*                                                                         *)
(*   logdir/plugins/profile/r1                                             *)
(*   logdir/a/b/plugins/profile/r2                                         *)
(*   logdir/c                                                              *)
(***************************************************************************)
DeepTree ==
    { logdir,
      logdir \o <<"plugins">>,
      logdir \o <<"plugins", "profile">>,
      logdir \o <<"plugins", "profile", "r1">>,
      logdir \o <<"a">>,
      logdir \o <<"a", "b">>,
      logdir \o <<"a", "b", "plugins">>,
      logdir \o <<"a", "b", "plugins", "profile">>,
      logdir \o <<"a", "b", "plugins", "profile", "r2">>,
      logdir \o <<"c">> }

\* The trees a walk starts from: the deep tree, a logdir without children,
\* and a logdir that is not a directory.
TreeChoices == { DeepTree, { logdir }, {} }

\* What data_provider.list_runs may return over the deep tree.
TreeListRuns ==
    { {},
      { <<"a", "b", "train">> },
      { <<"c", "eval">> },
      { <<"c", "validation">>, <<"train">> } }

InitTree ==
    /\ dirs \in TreeChoices
    /\ unreadable \in { {} } \cup { {d} : d \in dirs }
    /\ list_runs \in TreeListRuns
    /\ changes = 0
    /\ files = ExampleFiles
    /\ Plugin
    /\ NoRateWalk

NextTree == \E t \in Workers : Pass(t)

SpecTree == InitTree /\ [][NextTree]_vars

\* The consumer of the walk asks for every element: generate_runs' for loop
\* has no break, and the thread that runs it goes on running.
SpecTreeFair == SpecTree /\ WF_vars(NextTree)

(***************************************************************************)
(* Properties.                                                             *)
(***************************************************************************)
Cached == DOMAIN _run_to_profile_run_dir

\* C1: two complete discovery passes over an unchanged tree (and unchanged
\* list_runs) yield the same set of frontend runs, and what the cache held
\* after the first is still cached after the second.
C1_Idempotent ==
    \A e \in DOMAIN completed :
        /\ \A i, j \in DOMAIN completed[e] :
              completed[e][i].runs = completed[e][j].runs
        /\ completed[e] # << >> => completed[e][1].cached \subseteq Cached

\* Two complete passes ran in one epoch and found runs.
C1_Witness ==
    \E e \in DOMAIN completed :
        /\ Len(completed[e]) = 2
        /\ completed[e][2].runs # {}

NoDuplicates(s) == \A i, j \in DOMAIN s : s[i] = s[j] => i = j

\* C2: within one pass, a frontend run name is yielded at most once, also
\* when several containers produce it.
C2_YieldedOnce == \A t \in Threads : NoDuplicates(yielded[t])

\* A pass has been through both '.' and '', which name the same run r1.
C2_Witness ==
    \E t \in Threads :
        /\ pc[t] = "runs"
        /\ {<<".">>, << >>} \subseteq DOMAIN plugin_assets[t]
        /\ plugin_assets[t][<<".">>] = {}
        /\ plugin_assets[t][<< >>] = {}
        /\ <<"r1">> \in SetOf(yielded[t])
        /\ is_dir(logdir \o <<"plugins", "profile", "r1">>)

\* C3: the key set of the run-directory cache never shrinks, whatever the
\* passes, the queries and the tree do, and a per-run query leaves the cache
\* as it is.
C3_CacheNeverShrinks ==
    [][ /\ Cached \subseteq DOMAIN _run_to_profile_run_dir'
        /\ (\E t \in Threads : response'[t] # response[t])
              => _run_to_profile_run_dir' = _run_to_profile_run_dir ]_vars

\* A run whose directory was deleted is still cached, and was queried.
C3_Witness ==
    \E t \in Threads :
        /\ response[t].op = "tools"
        /\ response[t].kind = "ok"
        /\ response[t].run \in Cached
        /\ ~is_dir(_run_to_profile_run_dir[response[t].run])

\* C4: a query for a frontend run that has no backing directory fails with
\* 'No matching run directory' (RuntimeError): it neither returns with a path
\* that is no directory nor fails in another way.
C4_UnknownRunFails ==
    \A t \in Threads :
        (response[t].op \in {"tools", "hosts", "modules", "data"}
            /\ ~response[t].existed)
          => response[t].kind = "RuntimeError"

\* C5: a yielded frontend run is cached, with a directory that was verified
\* when it was yielded, and tool listing finds its entry ever after.
C5_YieldedIsCached ==
    /\ [](/\ ever_yielded \subseteq Cached
          /\ \A t \in Threads :
                response[t].op = "tools" /\ response[t].run \in ever_yielded
                    => response[t].kind # "KeyError")
    /\ [][ \A t \in Threads :
              Len(yielded'[t]) > Len(yielded[t]) =>
                 LET r == yielded'[t][Len(yielded'[t])]
                 IN  /\ r \in DOMAIN _run_to_profile_run_dir'
                     /\ PathOf(_run_to_profile_run_dir'[r]) \in dirs' ]_vars

\* After the tree changed, tool listing still finds a run yielded before.
C5_Witness ==
    \E t \in Threads :
        /\ changes > 0
        /\ response[t].op = "tools"
        /\ response[t].run \in ever_yielded
        /\ response[t].kind = "ok"

\* C6: every write of the is_active flag and of the run-directory cache
\* happens with _is_active_lock held.
C6_WritesUnderLock ==
    [][ (\/ _is_active' # _is_active
         \/ _run_to_profile_run_dir' # _run_to_profile_run_dir)
           => _is_active_lock # "free" ]_vars

\* C7: with two threads discovering and querying concurrently over an
\* unchanged tree, no cached entry is lost, every run a pass yielded is
\* cached, every complete pass yields the same runs, and is_active never
\* goes back from true to false.
C7_ConcurrentPasses ==
    /\ [](/\ \A t \in Threads : SetOf(yielded[t]) \subseteq Cached
          /\ ever_yielded \subseteq Cached
          /\ \A i \in DOMAIN completed[0] :
                completed[0][i].runs = completed[0][1].runs)
    /\ [][ /\ \A r \in Cached :
                 /\ r \in DOMAIN _run_to_profile_run_dir'
                 /\ _run_to_profile_run_dir'[r] = _run_to_profile_run_dir[r]
           /\ _is_active => _is_active' ]_vars

\* Both threads are inside a pass and both have yielded.
C7_Witness ==
    /\ \A t \in Threads : pc[t] = "runs" /\ yielded[t] # << >>
    /\ Len(completed[0]) = 2
    /\ _is_active

\* C10: for a module-binary tool, host_impl lists the module names of the
\* run's hlo_proto.pb files in place of hosts: module1 and module2 for
\* memory_viewer over ExampleFiles, not host1.
C10_ModulesAsHosts ==
    \A t \in Threads :
        (/\ response[t].op = "hosts"
         /\ response[t].kind = "ok"
         /\ response[t].existed
         /\ changes = 0
         /\ response[t].tool = "memory_viewer")
            => response[t].names = << <<"module1">>, <<"module2">> >>

RECURSIVE SumOver(_, _)
SumOver(log, times) ==
    IF times = {} THEN 0
    ELSE LET at == CHOOSE x \in times : TRUE
         IN  log[at] + SumOver(log, times \ {at})

\* The listing calls issued in the window of W seconds that starts at `from`.
IssuedInWindow(from) ==
    SumOver(listed_at, { at \in DOMAIN listed_at :
                           from <= at /\ at < from + LIMIT_WINDOW_SECONDS })

\* C8: no window of 60 seconds sees more than 100 listing calls of the
\* walker, also with several passes at once, and a suspended listing call
\* is kept, not dropped.
C8_RateBounded ==
    /\ \A from \in DOMAIN listed_at : IssuedInWindow(from) <= LimitCalls
    /\ \A t \in Threads : rate_pc[t] = "sleeping" => pending[t] > 0

\* The distinct hosts the filenames decode to; a file without host prefix
\* decodes to no host.
Decoded == { _parse_filename(f)[1] : f \in files } \ { None, EmptyStr }

Ascending(s) == \A i, j \in DOMAIN s : i < j => StrLess(s[i], s[j])

ExpectedHosts(tool) ==
    IF Cardinality(Decoded) > 1 /\ tool \in XPLANE_TOOLS_ALL_HOSTS_ONLY
    THEN { ALL_HOSTS }
    ELSE IF Cardinality(Decoded) > 1
            /\ tool \in XPLANE_TOOLS_ALL_HOSTS_SUPPORTED
         THEN Decoded \cup { ALL_HOSTS }
         ELSE Decoded

\* C9: filenames_to_hosts gives ALL_HOSTS alone for several hosts and an
\* all-hosts-only tool, the sorted hosts with ALL_HOSTS for several hosts and
\* a tool that is all-hosts-supported only, and the sorted hosts without it
\* otherwise; files without host prefix give no host.
C9_HostsByCase ==
    \A t \in Threads :
        response[t].op = "filenames_to_hosts" =>
            /\ SetOf(response[t].names) = ExpectedHosts(response[t].tool)
            /\ Ascending(response[t].names)
            /\ \A i \in DOMAIN response[t].names :
                  /\ Truthy(response[t].names[i])
                  /\ response[t].names[i] = ALL_HOSTS
                     \/ \E f \in files :
                           /\ f \notin { TOOLS[x] : x \in DOMAIN TOOLS }
                           /\ _parse_filename(f)[1] = response[t].names[i]

\* One host and a file without prefix, asked for an all-hosts-only tool.
C9_Witness ==
    \E t \in Threads :
        /\ response[t].op = "filenames_to_hosts"
        /\ response[t].tool \in XPLANE_TOOLS_ALL_HOSTS_ONLY
        /\ Cardinality(Decoded) = 1
        /\ <<"xplane", "pb">> \in files
        /\ response[t].names = << <<"a">> >>

\* C11: for every non-empty host and every key of TOOLS,
\* _parse_filename(make_filename(host, tool)) gives back the host and the
\* tool, also for hosts with dots or with a catalog extension inside.
C11_RoundTrip ==
    \A t \in Threads :
        response[t].op = "round_trip" =>
            /\ response[t].names = << response[t].run >>
            /\ response[t].tools = << response[t].tool >>

\* The grammar (<host-or-module>.)?<extension>: the name ends with a catalog
\* extension, alone or after a dot.
InGrammar(filename) ==
    /\ Len(filename) >= 2
    /\ \E x \in DOMAIN TOOLS :
          SubSeq(filename, Len(filename) - 1, Len(filename)) = TOOLS[x]

\* C12: _parse_filename gives (filename, None) for a filename outside the
\* grammar, and the family marker of the extension, never another tool name,
\* for one inside; it never raises.
C12_ParseByGrammar ==
    \A t \in Threads :
        response[t].op = "_parse_filename" =>
            /\ response[t].kind = "ok"
            /\ IF InGrammar(response[t].path)
               THEN /\ response[t].tools[1] \in DOMAIN TOOLS
                    /\ TOOLS[response[t].tools[1]] =
                          SubSeq(response[t].path, Len(response[t].path) - 1,
                                 Len(response[t].path))
               ELSE /\ response[t].names = << response[t].path >>
                    /\ response[t].tools = << "None" >>

ToolLess(x, y) == ToolRank(x) < ToolRank(y)

\* C13: _get_active_tools lists the resolved tools without duplicates,
\* 'overview_page' first when it is there and the others in ascending order,
\* and without 'trace_viewer' when 'trace_viewer@' is resolved.
C13_ActiveToolsOrder ==
    \A t \in Threads :
        (response[t].op = "_get_active_tools" /\ response[t].kind = "ok") =>
            LET resolved == response[t].toolset
                listed == response[t].tools
                rest == SelectSeq(listed, LAMBDA x : x # "overview_page")
            IN  /\ NoDuplicates(listed)
                /\ SetOf(listed) =
                      IF "trace_viewer@" \in resolved
                      THEN resolved \ {"trace_viewer"} ELSE resolved
                /\ "overview_page" \in resolved => listed[1] = "overview_page"
                /\ \A i, j \in DOMAIN rest : i < j => ToolLess(rest[i], rest[j])

\* The converter enumerates kernel_stats, overview_page and hlo_stats.
C13_Witness ==
    \E t \in Threads :
        /\ response[t].op = "_get_active_tools"
        /\ response[t].toolset = {"kernel_stats", "overview_page", "hlo_stats"}
        /\ response[t].tools = <<"overview_page", "hlo_stats", "kernel_stats">>

\* C15: a listing failure in tool, host or module enumeration is not
\* propagated: the query returns, with an empty result.
C15_ListingFailureCaught ==
    \A t \in Threads :
        response[t].op \in {"tools", "hosts", "modules"} =>
            response[t].kind # "OSError"

\* C16: with a run directory and xplane.pb files, _get_tools returns the
\* tools the converter enumerates; when the converter fails, _get_tools does
\* not raise and returns the directly-named tools found, none synthesized.
C16_ConverterFallback ==
    \A t \in Threads :
        (/\ response[t].op = "_get_tools"
         /\ response[t].path # << >>
         /\ XplaneFilenames(files) # {})
            => /\ response[t].kind = "ok"
               /\ response[t].toolset =
                     IF response[t].conv.raises = "none"
                     THEN response[t].conv.names ELSE {}


\* Every proper ancestor of path, from the logdir down, lists successfully.
AncestorsListed(path) ==
    \A k \in 1..(Len(path) - 1) : SubSeq(path, 1, k) \notin unreadable

\* path is <logdir>/D/plugins/profile/R, with D of no or more segments.
IsProfileRunDir(path) ==
    /\ Len(path) >= 4
    /\ path[Len(path) - 1] = PLUGIN_NAME
    /\ path[Len(path) - 2] = TB_NAME

\* D/R for <logdir>/D/plugins/profile/R, and R alone when D is empty.
DeepRunName(path) == SubSeq(path, 2, Len(path) - 3) \o <<path[Len(path)]>>

\* C14: a complete discovery pass over an unchanged tree yields D/R for every
\* directory <logdir>/D/plugins/profile/R whose ancestors all list
\* successfully, with D of any depth and known to list_runs or not, and
\* yields R alone for <logdir>/plugins/profile/R.
C14_DeepDiscovery ==
    \A i \in DOMAIN completed[0] :
       \A path \in dirs :
          IsProfileRunDir(path) /\ AncestorsListed(path)
             => DeepRunName(path) \in completed[0][i].runs

\* A complete pass found a/b/r2 and r1, with a/b unknown to list_runs.
C14_Witness ==
    /\ list_runs = { <<"c", "eval">> }
    /\ unreadable = {}
    /\ \E i \in DOMAIN completed[0] :
          completed[0][i].runs = { <<"a", "b", "r2">>, <<"r1">> }

\* The walk of thread t is under way: suspended at a yield or about to pop.
Walking(t) == pc[t] \in { "walk", "list" }

\* The walk of thread t is exhausted: the deque is empty at the loop test.
WalkEnded(t) == pc[t] = "walk" /\ dirs_to_visit[t] = << >>

\* C17: a failed listing neither raises nor stops the walk: no directory is
\* yielded twice, no directory below a failed listing is yielded, every
\* directory whose ancestors all list successfully is yielded by the end of
\* the walk (the failed directory included), and a failed listing of the
\* root leaves exactly the root.
C17_WalkToleratesFailure ==
    \A t \in Workers :
       Walking(t) =>
          /\ NoDuplicates(walked[t])
          /\ \A i \in DOMAIN walked[t] :
                walked[t][i] \in dirs /\ AncestorsListed(walked[t][i])
          /\ WalkEnded(t) =>
                /\ \A d \in dirs : AncestorsListed(d) => d \in SetOf(walked[t])
                /\ logdir \in unreadable => walked[t] = <<logdir>>

\* The listing of logdir/a failed and the walk went on to the end: a was
\* yielded, a/b was not, and the directories under plugins and c were.
C17_Witness ==
    /\ unreadable = { logdir \o <<"a">> }
    /\ WalkEnded("t1")
    /\ SetOf(walked["t1"]) =
          { logdir, logdir \o <<"a">>, logdir \o <<"c">>,
            logdir \o <<"plugins">>, logdir \o <<"plugins", "profile">>,
            logdir \o <<"plugins", "profile", "r1">> }

\* The directory that contains path.
Parent(path) == SubSeq(path, 1, Len(path) - 1)

\* The order of the yields of a walk without listing failures: the root
\* first, no directory twice, depth never decreasing, every parent before
\* its children, the yields and the deque together no more than the
\* directories of the tree, all of them yielded at the end, and none when
\* the root is not a directory.
WalkInOrder ==
    \A t \in Workers :
       Walking(t) /\ unreadable = {} =>
          LET w == walked[t]
          IN  /\ w # << >> => w[1] = logdir
              /\ NoDuplicates(w)
              /\ \A i, j \in DOMAIN w : i < j => Len(w[i]) <= Len(w[j])
              /\ \A j \in DOMAIN w :
                    j > 1 => \E i \in 1..(j - 1) : w[i] = Parent(w[j])
              /\ Len(w) + Len(dirs_to_visit[t]) <= Cardinality(dirs)
              /\ WalkEnded(t) => SetOf(w) = dirs
              /\ ~is_dir(logdir) => w = << >> /\ WalkEnded(t)

\* C18: with no listing failure the walk yields the root first (also when
\* it has no children), every directory of the tree exactly once, none at a
\* greater depth before one at a smaller depth, every parent before its
\* children, and nothing when the root is not a directory; and a walk under
\* way reaches its end.  The last is read under weak fairness of the pass:
\* the consumer asks for every element.
C18_BreadthFirst ==
    /\ []WalkInOrder
    /\ \A t \in Workers : (Walking(t) /\ unreadable = {}) ~> WalkEnded(t)

\* A walk of the whole deep tree ended with its ten directories yielded.
C18_Witness ==
    /\ unreadable = {}
    /\ dirs = DeepTree
    /\ WalkEnded("t1")
    /\ Len(walked["t1"]) = Cardinality(DeepTree)

\* C19: while the walk is suspended at the yield of its k-th directory the
\* listing calls made are those of the first k-1 directories yielded, in
\* that order, so a consumer that stops there causes no further listing;
\* the call for a directory is made when the consumer asks for the element
\* after it, so between two yields every yielded directory has been listed.
C19_LazyWalk ==
    \A t \in Workers :
       /\ pc[t] = "list" =>
             /\ Len(listings[t]) = Len(walked[t]) - 1
             /\ listings[t] = SubSeq(walked[t], 1, Len(walked[t]) - 1)
       /\ pc[t] = "walk" => listings[t] = walked[t]

\* The consumer holds the third directory of a walk: two listings so far.
C19_Witness ==
    /\ pc["t1"] = "list"
    /\ Len(walked["t1"]) = 3
    /\ Len(listings["t1"]) = 2

\* The runs of list_runs whose own directory is called train or validation.
TrainOrValidation ==
    { run \in list_runs : Basename(run) \in { <<"train">>, <<"validation">> } }

\* C20, as stated: during a discovery pass the candidate containers hold the
\* logdir root and the parent of every run of list_runs, whatever the run's
\* own directory is called.
C20_SeedsEveryParent ==
    \A t \in Workers :
       pc[t] # "idle" =>
          /\ <<".">> \in tb_runs[t]
          /\ \A run \in list_runs : Dirname(run) \in tb_runs[t]

\* C20, amended: during a discovery pass the candidate containers hold the
\* logdir root and the parent of every run of list_runs whose own directory
\* is called train or validation; any other candidate is a directory under
\* which the walk found plugins/profile.
C20_SeedsTrainValidationParents ==
    \A t \in Workers :
       pc[t] # "idle" =>
          /\ <<".">> \in tb_runs[t]
          /\ \A run \in TrainOrValidation : Dirname(run) \in tb_runs[t]
          /\ \A c \in tb_runs[t] :
                \/ c = <<".">>
                \/ \E run \in TrainOrValidation : c = Dirname(run)
                \/ logdir \o c \o <<TB_NAME, PLUGIN_NAME>> \in dirs

\* A pass seeded with c, the parent of c/validation, and with the parent of
\* the run train at the logdir.
C20_Witness ==
    /\ list_runs = { <<"c", "validation">>, <<"train">> }
    /\ pc["t1"] = "walk"
    /\ { <<".">>, <<"c">>, Dirname(<<"train">>) } \subseteq tb_runs["t1"]

\* A tool identifier without its trailing streaming marker '@'.
StripMarker(tool) == IF tool = "trace_viewer@" THEN "trace_viewer" ELSE tool

\* The catalog tools no directly-named file of filenames provides.
Unfound(filenames) ==
    { XPLANE_TOOLS[i] : i \in
        { j \in DOMAIN XPLANE_TOOLS :
            StripMarker(XPLANE_TOOLS[j]) \notin
               { StripMarker(tool) : tool \in DirectTools(filenames) } } }

\* C21: without a run directory _get_tools returns, next to the tools named
\* directly by files, every catalog tool not found as such a file (matched
\* with a trailing '@' stripped) when an xplane.pb file is among the
\* filenames, and no catalog tool when none is; the hlo_proto.pb files
\* contribute no tool identifier, and neither format marker is returned.
C21_SynthesisWithoutRunDir ==
    \A t \in Threads :
        (response[t].op = "_get_tools" /\ response[t].path = << >>) =>
            /\ response[t].kind = "ok"
            /\ response[t].toolset =
                  DirectTools(files) \cup
                     (IF \E name \in files : _parse_filename(name)[2] = "xplane"
                      THEN Unfound(files) ELSE {})
            /\ response[t].toolset \cap { "xplane", "hlo_proto" } = {}

\* _get_tools without a run directory, over an xplane.pb file and an
\* hlo_proto.pb file, returned the fifteen tools of the catalog.
C21_Witness ==
    /\ { <<"a", "xplane", "pb">>, <<"a", "hlo_proto", "pb">> } \subseteq files
    /\ response["t1"].op = "_get_tools"
    /\ response["t1"].path = << >>
    /\ response["t1"].toolset = SetOf(XPLANE_TOOLS)

\* The cache entry of run r and the directory _run_dir derives for r denote
\* one directory, and _run_dir finds r while the cached directory exists.
CacheAgreesWithRunDir ==
    \A r \in Cached :
       LET run_dir == _run_dir(r)
       IN  /\ is_dir(_run_to_profile_run_dir[r]) => ~run_dir.raises
           /\ ~run_dir.raises =>
                 PathOf(run_dir.path) = PathOf(_run_to_profile_run_dir[r])

\* C22: for every frontend run name a discovery pass cached and yielded, the
\* cached backing directory is the directory _run_dir derives from the name,
\* so the queries that read the cache and those that call _run_dir address
\* one directory; and a second container that produces the same name writes
\* the same backing directory: no step changes the directory of a name.
C22_CacheAgreesWithRunDir ==
    /\ []CacheAgreesWithRunDir
    /\ [][ \A r \in Cached \cap DOMAIN _run_to_profile_run_dir' :
              PathOf(_run_to_profile_run_dir'[r]) =
                 PathOf(_run_to_profile_run_dir[r]) ]_vars

\* The containers '.' and '' (the parent of the run train) both produced r1,
\* and the container a/b produced a/b/r2.
C22_Witness ==
    /\ pc["t1"] = "runs"
    /\ { <<".">>, << >> } \subseteq DOMAIN plugin_assets["t1"]
    /\ plugin_assets["t1"][<<".">>] = {}
    /\ plugin_assets["t1"][<< >>] = {}
    /\ { <<"r1">>, <<"a", "b", "r2">> } \subseteq Cached
    /\ yielded["t1"] # << >>
====
